---- MODULE Spec2Model ----
(***************************************************************************)
(* A model of prometheus-nftables-exporter (main.py): the one-time         *)
(* provisioning of the maxmind database (checksum fetch, archive download  *)
(* and verification, extraction, each behind the retry decorator) and the  *)
(* collection loop that fetches nftables objects and writes them into the  *)
(* prometheus metrics read by the concurrently running http server.        *)
(***************************************************************************)
EXTENDS Integers, Sequences, FiniteSets, TLC

\* ------------------------------------------------------------------ bounds

\* File contents 1..MaxContent are archives the remote service can deliver.
MaxContent == 2
\* How many times the program is started on the same cache directory.
MaxRuns == 2
\* Longest list of objects in nft's listing of the maps, meters or sets.
MaxEntries == 1

\* --------------------------------------------------------------- constants

\* retry(n=2, ...): the default number of guarded attempts.
RetryN == 2

None == "None"
NoExc == "NoExc"
\* No file at a path, and a variable not assigned yet: told apart from the
\* contents and checksums, which are numbers.
NoFile == 0 - 1
Unset == 0 - 2

\* A file cut short by a failed transfer.
Truncated == 0
Contents == 1..MaxContent
FileContents == {Truncated} \cup Contents

\* ------------------------------------------------------------------- state

VARIABLES
    run,            \* how many times the program has been started
    pc,             \* where the main thread is
    exc,            \* the exception that ended the process, NoExc while it runs
    tb,             \* its traceback: where the main thread was when it was raised
    enabled,        \* MAXMIND_LICENSE_KEY and MAXMIND_DATABASE_EDITION are set
    dirExists,      \* MAXMIND_CACHE_DIRECTORY exists
    archive,        \* content of <storage_dir>/<edition>.tar.gz, or NoFile
    extracted,      \* contents whose <edition>_*/<edition>.mmdb lie in storage_dir
    checksum,       \* the checksum returned by the checksum stage
    calls,          \* invocations of the wrapped callback by the running wrapper
    last,           \* what the latest of them raised, NoExc when it returned
    database_path,  \* the result of prepare_maxmind_database
    geoip_db,       \* the geoip_db argument of collect_metrics
    prov,           \* history of the provisioning run
    rules, chains,                      \* the gauges without labels
    counter_bytes, counter_packets,     \* label values -> value
    map_elements, meter_elements, set_elements,
    items,          \* what is left of the list a for loop of collect_metrics runs over
    produced,       \* per metric, the points written since its latest reset
    committed,      \* per metric, its series when its latest update ended
    scraped,        \* what the latest scrape of the http server saw
    args,           \* the arguments of a function called on its own, else <<>>
    returned        \* what that call returned or raised, <<>> before it

provVars == <<run, enabled, dirExists, archive, extracted, checksum, calls, last,
              database_path, geoip_db, prov>>
loopVars == <<rules, chains, counter_bytes, counter_packets, map_elements,
              meter_elements, set_elements, items, produced, committed, scraped>>
unitVars == <<args, returned>>
vars == <<run, pc, exc, tb, provVars, loopVars, unitVars>>

\* ------------------------------------------------------------- pure helpers

\* hashlib.sha256 over the whole file, as a hex digest: distinct contents
\* have distinct digests, and a digest is not the content.
calculate_file_checksum(content) == (content * 5 + 3) % 16

verify_file_checksum(content, expected_checksum) ==
    calculate_file_checksum(content) = expected_checksum

\* issubclass(exception class, class named in an except clause)
Bases(e) ==
    CASE e = "HTTPError" -> {"HTTPError", "URLError", "OSError", "Exception"}
      [] e = "URLError" -> {"URLError", "OSError", "Exception"}
      [] e = "FileNotFoundError" -> {"FileNotFoundError", "OSError", "Exception"}
      [] e = "OSError" -> {"OSError", "Exception"}
      [] OTHER -> {e, "Exception"}

Catches(exceptions, e) == Bases(e) \cap exceptions # {}

\* retry with the guarded attempts counted one too many.
retry_extra_attempt(invoked, raised, exceptions) ==
    IF raised = NoExc THEN "return"
    ELSE IF invoked <= RetryN /\ Catches(exceptions, raised) THEN "again"
    ELSE "raise"

\* retry without the bound on the guarded attempts.
retry_unbounded(invoked, raised, exceptions) ==
    IF raised = NoExc THEN "return"
    ELSE IF Catches(exceptions, raised) THEN "again"
    ELSE "raise"

\* One invocation of the callback inside retry's wrapper, `invoked` invocations
\* having been made before it: the first n run inside try/except, the last
\* one unguarded.
retry(invoked, raised, exceptions) ==
    IF raised = NoExc THEN "return"
    ELSE IF invoked < RetryN /\ Catches(exceptions, raised) THEN "again"
    ELSE "raise"

\* ------------------------------------------------------------ provisioning

ChecksumExceptions == {"URLError"}
\* @retry() on the archive stage: the default exceptions=Exception.
ArchiveExceptions_default == {"Exception"}
ArchiveExceptions == {"URLError", "RuntimeError"}

\* The wrapper's reaction to one invocation of its callback that raised
\* `raised` (NoExc: it returned): hand the result to the caller, swallow the
\* exception and loop, or let it propagate out of main.
Wrapper(raised, exceptions, next) ==
    LET r == retry(calls, raised, exceptions) IN
    /\ calls' = calls + 1
    /\ last' = raised
    /\ pc' = CASE r = "return" -> next
               [] r = "again" -> pc
               [] OTHER -> "raised"
    /\ exc' = IF r = "raise" THEN raised ELSE exc
    /\ tb' = IF r = "raise" THEN pc ELSE tb

\* main, lines 35-40 and 44-45: with the license key and the edition set it
\* calls prepare_maxmind_database, whose first statement enters the wrapper
\* of the checksum stage; without them it calls collect_metrics at once.
\* main calling prepare_maxmind_database whatever the environment says.
Main_always_preparing ==
    /\ pc = "main"
    /\ pc' = "download_maxmind_database_checksum"
    /\ UNCHANGED <<exc, tb, provVars, loopVars, unitVars>>

Main ==
    /\ pc = "main"
    /\ pc' = IF enabled THEN "download_maxmind_database_checksum" ELSE "L101"
    /\ UNCHANGED <<exc, tb, provVars, loopVars, unitVars>>

\* One invocation of download_maxmind_database_checksum by its wrapper:
\* urlopen fails (URLError, or its subclass HTTPError), the body is empty
\* (words[0] raises IndexError), or the first word of the line is returned.
ChecksumAttempt ==
    /\ pc = "download_maxmind_database_checksum"
    /\ \E raised \in {NoExc, "URLError", "HTTPError", "IndexError"} :
       \E c \in Contents :
          /\ Wrapper(raised, ChecksumExceptions, "checksum_returned")
          /\ checksum' = IF raised = NoExc THEN calculate_file_checksum(c) ELSE checksum
          /\ prov' = [prov EXCEPT !.answered = @ /\ raised = NoExc]
    /\ UNCHANGED <<run, enabled, dirExists, archive, extracted, database_path, geoip_db,
                   loopVars, unitVars>>

\* prepare_maxmind_database, line 189: the archive stage's wrapper is entered.
CallArchive ==
    /\ pc = "checksum_returned"
    /\ pc' = "download_maxmind_database_archive"
    /\ calls' = 0
    /\ last' = NoExc
    /\ prov' = [prov EXCEPT !.cached = archive]
    /\ UNCHANGED <<run, exc, tb, enabled, dirExists, archive, extracted, checksum,
                   database_path, geoip_db, loopVars, unitVars>>

\* Line 209 downloading whatever the cache holds.
NeedsDownload_always(file, expected_checksum) == TRUE

\* Line 209 trusting any file the cache holds.
NeedsDownload_missing_only(file, expected_checksum) == file = NoFile

\* The condition of line 209: the archive has to be downloaded.
NeedsDownload(file, expected_checksum) ==
    file = NoFile \/ ~verify_file_checksum(file, expected_checksum)

\* What urllib.request.urlretrieve can do to the archive file, as pairs
\* <<exception, file afterwards>>: urlopen fails and the file is untouched;
\* the directory is missing and opening the file for writing fails; the
\* transfer is cut short (ContentTooShortError, a URLError) and leaves a
\* truncated file; or some archive is written completely.
urlretrieve(file) ==
    {<<"URLError", file>>}
    \cup (IF dirExists
            THEN {<<"URLError", Truncated>>} \cup {<<NoExc, c>> : c \in Contents}
            ELSE {<<"FileNotFoundError", file>>})

\* download_maxmind_database_archive without the verification of line 213
\* after a download.
download_unverified(file, expected_checksum, dl) ==
    IF NeedsDownload(file, expected_checksum)
    THEN <<dl[1], dl[2], 1>>
    ELSE <<NoExc, file, 0>>

\* The body of download_maxmind_database_archive on `file`, the download
\* (if one is made) ending as `dl`: <<exception, file afterwards, downloads>>.
download_maxmind_database_archive(file, expected_checksum, dl) ==
    IF NeedsDownload(file, expected_checksum)
    THEN IF dl[1] # NoExc THEN <<dl[1], dl[2], 1>>
         ELSE IF ~verify_file_checksum(dl[2], expected_checksum)
              THEN <<"RuntimeError", dl[2], 1>>
              ELSE <<NoExc, dl[2], 1>>
    ELSE IF ~verify_file_checksum(file, expected_checksum)
         THEN <<"RuntimeError", file, 0>>
         ELSE <<NoExc, file, 0>>

\* One invocation of download_maxmind_database_archive by its wrapper.
ArchiveAttempt ==
    /\ pc = "download_maxmind_database_archive"
    /\ \E dl \in urlretrieve(archive) :
          LET r == download_maxmind_database_archive(archive, checksum, dl) IN
          /\ Wrapper(r[1], ArchiveExceptions, "archive_returned")
          /\ archive' = r[2]
          /\ prov' = [prov EXCEPT
                 !.downloads = @ + r[3],
                 !.delivered = @ /\ (r[3] = 1 =>
                     /\ dl[1] = NoExc
                     /\ verify_file_checksum(dl[2], checksum)),
                 !.answered = @ /\ (r[3] = 1 =>
                     /\ dl[1] # "URLError"
                     /\ dl[1] = NoExc => verify_file_checksum(dl[2], checksum))]
    /\ UNCHANGED <<run, enabled, dirExists, extracted, checksum, database_path, geoip_db,
                   loopVars, unitVars>>

\* tarfile.open and extractall on the archive: it is unpacked, or the
\* extraction fails (an unreadable archive, a full disk).
extractall == {NoExc, "OSError"}

\* prepare_maxmind_database, line 190: the archive stage's wrapper has
\* returned (its locals are gone) and extract_maxmind_database_archive runs:
\* mkdir, the extraction, and last() of a glob whose order the file system
\* decides.
Extract ==
    /\ pc = "archive_returned"
    /\ dirExists' = TRUE
    /\ \E raised \in extractall :
          IF raised = NoExc
          THEN /\ extracted' = extracted \cup {archive}
               /\ \E found \in extracted' : database_path' = found
               /\ pc' = "prepared"
               /\ UNCHANGED <<exc, tb>>
          ELSE /\ pc' = "raised"
               /\ exc' = raised
               /\ tb' = "extract_maxmind_database_archive"
               /\ UNCHANGED <<extracted, database_path>>
    /\ calls' = 0
    /\ last' = NoExc
    /\ prov' = [prov EXCEPT !.verified = (calculate_file_checksum(archive) = checksum)]
    /\ UNCHANGED <<run, enabled, archive, checksum, geoip_db, loopVars, unitVars>>

\* main, lines 41-42: the database is opened and handed to collect_metrics.
StartCollect ==
    /\ pc = "prepared"
    /\ geoip_db' = "database"
    /\ pc' = "L101"
    /\ UNCHANGED <<run, exc, tb, enabled, dirExists, archive, extracted, checksum, calls,
                   last, database_path, prov, loopVars, unitVars>>

\* ------------------------------------------------------------------ metrics

\* labelnames of map_elements, meter_elements and set_elements, and of
\* counter_bytes and counter_packets (get_prometheus_metrics).
ElementLabels == {"family", "table", "name", "type", "country"}
CounterLabels == {"family", "table", "name"}

\* A metric with labels is the function from the label values of its
\* children (its published series) to their values.
NoSeries == [k \in {} |-> 0]

Put(metric, key, value) ==
    [k \in DOMAIN metric \cup {key} |-> IF k = key THEN value ELSE metric[k]]

_filter_labels(data, labelnames) ==
    [key \in DOMAIN data \cap labelnames |-> data[key]]

\* DictGauge.labels and DictCounter.labels: <<exception, label values>>.
\* prometheus_client's labels(**kwargs) raises ValueError unless the names
\* given are exactly the metric's labelnames.
labels(data, labelnames) ==
    LET filtered == _filter_labels(data, labelnames) IN
    IF DOMAIN filtered = labelnames
    THEN <<NoExc, filtered>>
    ELSE <<"ValueError", filtered>>

\* _reset_labels leaving the samples as they are.
_reset_labels_skipped(metric) == metric

\* _reset_labels removing the children of the metric.
_reset_labels_clearing(metric) == NoSeries

\* _reset_labels: every sample collect() returns is set to 0.
_reset_labels(metric) == [k \in DOMAIN metric |-> 0]

\* ----------------------------------------------------------- fetch_nftables

\* fetch_nftables without the check of json_schema_version.
fetch_any_version(process, type_name) ==
    IF process.returncode # 0 THEN <<"CalledProcessError", <<>>>>
    ELSE IF ~process.stdout.json THEN <<"JSONDecodeError", <<>>>>
    ELSE LET data == process.stdout.nftables IN
         IF Len(data) = 0 THEN <<"IndexError", <<>>>>
         ELSE IF "metainfo" \notin DOMAIN data[1] THEN <<"KeyError", <<>>>>
         ELSE LET tagged == SelectSeq(Tail(data), LAMBDA item : type_name \in DOMAIN item)
              IN <<NoExc, [i \in 1..Len(tagged) |-> tagged[i][type_name]]>>

\* fetch_nftables(query_name, type_name) on the completed nft process:
\* <<exception, list returned>>.
fetch_nftables(process, type_name) ==
    IF process.returncode # 0 THEN <<"CalledProcessError", <<>>>>
    ELSE IF ~process.stdout.json THEN <<"JSONDecodeError", <<>>>>
    ELSE LET data == process.stdout.nftables IN
         IF Len(data) = 0 THEN <<"IndexError", <<>>>>
         ELSE IF "metainfo" \notin DOMAIN data[1] THEN <<"KeyError", <<>>>>
         ELSE IF data[1].metainfo.json_schema_version # 1
              THEN <<"RuntimeError", <<>>>>
         ELSE LET tagged == SelectSeq(Tail(data), LAMBDA item : type_name \in DOMAIN item)
              IN <<NoExc, [i \in 1..Len(tagged) |-> tagged[i][type_name]]>>

\* item.get(key, default)
Get(item, key, default) == IF key \in DOMAIN item THEN item[key] ELSE default

\* ------------------------------------------------ annotate_elements_with_country

\* The opened database: database.get(address) as <<exception, info>>. An
\* address it holds with a country, one it holds without, one it does not
\* hold (get returns None), and a value that is no address (get raises).
NoneInfo == [none |-> TRUE]
database_get(address) ==
    CASE address = "192.0.2.1" -> <<NoExc, [country |-> [iso_code |-> "FR"]]>>
      [] address = "192.0.2.2" -> <<NoExc, [country |-> [iso_code |-> "FR"]]>>
      [] address = "198.51.100.1" -> <<NoExc, [country |-> [iso_code |-> "US"]]>>
      [] address = "203.0.113.1" -> <<NoExc, [continent |-> [code |-> "EU"]]>>
      [] address = "10.0.0.1" -> <<NoExc, NoneInfo>>
      [] OTHER -> <<"ValueError", NoneInfo>>

\* lookup_ip_country: <<exception, country code>>. Only the subscripts of
\* info are inside the try.
lookup_ip_country(address) ==
    LET got == database_get(address) IN
    IF got[1] # NoExc THEN <<got[1], "">>
    ELSE IF "country" \in DOMAIN got[2] /\ "iso_code" \in DOMAIN got[2].country
         THEN <<NoExc, got[2].country.iso_code>>
         ELSE <<NoExc, "">>

\* Lines 147-152 for one element: <<exception, the address handed to
\* lookup_ip_country>>.
ElementAddress(element) ==
    IF element.py = "str" THEN <<NoExc, element.val>>
    ELSE IF element.py = "dict"
         THEN IF "elem" \in DOMAIN element /\ "val" \in DOMAIN element.elem
              THEN <<NoExc, element.elem.val>>
              ELSE <<"KeyError", None>>
         ELSE <<"TypeError", None>>

\* result[country] += 1 on the dict kept as the sequence of its
\* <<country, count>> pairs in insertion order.
Increment(result, country) ==
    IF \E i \in 1..Len(result) : result[i][1] = country
    THEN [i \in 1..Len(result) |->
            IF result[i][1] = country THEN <<country, result[i][2] + 1>> ELSE result[i]]
    ELSE Append(result, <<country, 1>>)

\* The loop of lines 146-153: <<exception, result, the addresses the
\* database was asked for>>.
RECURSIVE CountCountries(_, _, _)
CountCountries(elements, result, looked) ==
    IF elements = <<>> THEN <<NoExc, result, looked>>
    ELSE LET a == ElementAddress(Head(elements)) IN
         IF a[1] # NoExc THEN <<a[1], result, looked>>
         ELSE LET c == lookup_ip_country(a[2]) IN
              IF c[1] # NoExc THEN <<c[1], result, Append(looked, a[2])>>
              ELSE CountCountries(Tail(elements), Increment(result, c[2]),
                                  Append(looked, a[2]))

\* dict(item, country=country)
WithCountry(item, country) ==
    [k \in DOMAIN item \cup {"country"} |-> IF k = "country" THEN country ELSE item[k]]

\* annotate_elements_with_country looking up the elements of every object
\* once a database is given, whatever the type of the object.
annotate_any_type(item, db) ==
    LET elements == Get(item, "elem", <<>>) IN
    IF db # None
    THEN LET r == CountCountries(elements, <<>>, <<>>) IN
         IF r[1] # NoExc THEN <<r[1], <<>>, r[3]>>
         ELSE <<NoExc, [i \in 1..Len(r[2]) |->
                          <<WithCountry(item, r[2][i][1]), r[2][i][2]>>], r[3]>>
    ELSE <<NoExc, << <<WithCountry(item, ""), Len(elements)>> >>, <<>>>>

\* annotate_elements_with_country: <<exception, the points it yields, the
\* addresses the database was asked for>>. With a database and an address
\* type nothing is yielded before every element has been looked up.
annotate_elements_with_country(item, db) ==
    LET elements == Get(item, "elem", <<>>) IN
    IF db # None /\ Get(item, "type", None) \in {"ipv4_addr", "ipv6_addr"}
    THEN LET r == CountCountries(elements, <<>>, <<>>) IN
         IF r[1] # NoExc THEN <<r[1], <<>>, r[3]>>
         ELSE <<NoExc, [i \in 1..Len(r[2]) |->
                          <<WithCountry(item, r[2][i][1]), r[2][i][2]>>], r[3]>>
    ELSE <<NoExc, << <<WithCountry(item, ""), Len(elements)>> >>, <<>>>>

\* ---------------------------------------------------------- collect_metrics

\* The statements of the loop of collect_metrics, by line.
LoopPcs == {"L101", "L102", "L103", "L104", "L106", "L107", "L108", "L110",
            "L111", "L112", "L114", "L115", "L116", "L118"}

ElementMetrics == {"map_elements", "meter_elements", "set_elements"}
PcReset == [map_elements |-> "L106", meter_elements |-> "L110", set_elements |-> "L114"]
PcFetch == [map_elements |-> "L107", meter_elements |-> "L111", set_elements |-> "L115"]
PcItem == [map_elements |-> "L108", meter_elements |-> "L112", set_elements |-> "L116"]
\* The maps done, collect_metrics going on with the sets.
PcAfter_skipping_meters ==
    [map_elements |-> "L114", meter_elements |-> "L114", set_elements |-> "L118"]
PcAfter == [map_elements |-> "L110", meter_elements |-> "L114", set_elements |-> "L118"]
QueryName == [map_elements |-> "maps", meter_elements |-> "meters", set_elements |-> "sets"]
TypeName == [map_elements |-> "map", meter_elements |-> "meter", set_elements |-> "set"]

Metric(m) ==
    CASE m = "map_elements" -> map_elements
      [] m = "meter_elements" -> meter_elements
      [] m = "set_elements" -> set_elements
      [] m = "counter_bytes" -> counter_bytes
      [] m = "counter_packets" -> counter_packets

\* The element metric m becomes `value`, the other two stay.
SetMetric(m, value) ==
    /\ map_elements' = IF m = "map_elements" THEN value ELSE map_elements
    /\ meter_elements' = IF m = "meter_elements" THEN value ELSE meter_elements
    /\ set_elements' = IF m = "set_elements" THEN value ELSE set_elements

\* An exception leaves collect_metrics and main: the process ends.
Raise(e) ==
    /\ pc' = "raised"
    /\ exc' = e
    /\ tb' = pc

Running(next) ==
    /\ pc' = next
    /\ UNCHANGED <<exc, tb>>

\* Line 101: rules.set(len(fetch_nftables('ruleset', 'rule')))
FetchRules(Responses) ==
    /\ pc = "L101"
    /\ \E process \in Responses.ruleset :
          LET r == fetch_nftables(process, "rule") IN
          IF r[1] # NoExc
          THEN Raise(r[1]) /\ UNCHANGED rules
          ELSE Running("L102") /\ rules' = Len(r[2])
    /\ UNCHANGED <<provVars, unitVars, chains, counter_bytes, counter_packets, map_elements,
                   meter_elements, set_elements, items, produced, committed, scraped>>

\* Line 102: chains.set(len(fetch_nftables('ruleset', 'chain')))
FetchChains(Responses) ==
    /\ pc = "L102"
    /\ \E process \in Responses.ruleset :
          LET r == fetch_nftables(process, "chain") IN
          IF r[1] # NoExc
          THEN Raise(r[1]) /\ UNCHANGED chains
          ELSE Running("L103") /\ chains' = Len(r[2])
    /\ UNCHANGED <<provVars, unitVars, rules, counter_bytes, counter_packets, map_elements,
                   meter_elements, set_elements, items, produced, committed, scraped>>

\* Line 103: the list the for loop runs over is fetched.
FetchCounters(Responses) ==
    /\ pc = "L103"
    /\ \E process \in Responses.counters :
          LET r == fetch_nftables(process, "counter") IN
          IF r[1] # NoExc
          THEN Raise(r[1]) /\ UNCHANGED <<items, committed>>
          ELSE /\ items' = r[2]
               /\ Running(IF r[2] = <<>> THEN "L106" ELSE "L104")
               /\ committed' = IF r[2] = <<>>
                     THEN [committed EXCEPT !.counter_bytes = counter_bytes,
                                            !.counter_packets = counter_packets]
                     ELSE committed
    /\ UNCHANGED <<provVars, unitVars, rules, chains, counter_bytes, counter_packets, map_elements,
                   meter_elements, set_elements, produced, scraped>>

\* Lines 104-105 for the next counter.
CounterItem ==
    /\ pc = "L104"
    /\ LET item == Head(items)
           l == labels(item, CounterLabels) IN
       IF l[1] # NoExc
       THEN Raise(l[1]) /\ UNCHANGED <<counter_bytes, counter_packets, items, committed>>
       ELSE /\ counter_bytes' = Put(counter_bytes, l[2], Get(item, "bytes", 0))
            /\ counter_packets' = Put(counter_packets, l[2], Get(item, "packets", 0))
            /\ items' = Tail(items)
            /\ Running(IF Tail(items) = <<>> THEN "L106" ELSE "L104")
            /\ committed' = IF Tail(items) = <<>>
                  THEN [committed EXCEPT !.counter_bytes = counter_bytes',
                                         !.counter_packets = counter_packets']
                  ELSE committed
    /\ UNCHANGED <<provVars, unitVars, rules, chains, map_elements, meter_elements, set_elements,
                   produced, scraped>>

\* Lines 106, 110, 114: <metric>.reset(), every sample in one step.
Reset(m) ==
    /\ pc = PcReset[m]
    /\ SetMetric(m, _reset_labels(Metric(m)))
    /\ produced' = [produced EXCEPT ![m] = NoSeries]
    /\ Running(PcFetch[m])
    /\ UNCHANGED <<provVars, unitVars, rules, chains, counter_bytes, counter_packets, items,
                   committed, scraped>>

\* Lines 107, 111, 115: the list the for loop runs over is fetched.
FetchElements(m, Responses) ==
    /\ pc = PcFetch[m]
    /\ \E process \in Responses[QueryName[m]] :
          LET r == fetch_nftables(process, TypeName[m]) IN
          IF r[1] # NoExc
          THEN Raise(r[1]) /\ UNCHANGED <<items, committed>>
          ELSE /\ items' = r[2]
               /\ Running(IF r[2] = <<>> THEN PcAfter[m] ELSE PcItem[m])
               /\ committed' = IF r[2] = <<>>
                     THEN [committed EXCEPT ![m] = Metric(m)]
                     ELSE committed
    /\ UNCHANGED <<provVars, unitVars, rules, chains, counter_bytes, counter_packets, map_elements,
                   meter_elements, set_elements, produced, scraped>>

\* <metric>.labels(labels).set(value) for the points in turn, up to the first
\* that raises: <<exception, metric afterwards, points written>>.
RECURSIVE WritePoints(_, _, _)
WritePoints(metric, points, written) ==
    IF points = <<>> THEN <<NoExc, metric, written>>
    ELSE LET l == labels(Head(points)[1], ElementLabels) IN
         IF l[1] # NoExc THEN <<l[1], metric, written>>
         ELSE WritePoints(Put(metric, l[2], Head(points)[2]), Tail(points),
                          Put(written, l[2], Head(points)[2]))

\* Lines 108-109, 112-113, 116-117 for the next object: one step of the outer
\* for loop, with every set() of the object's points. (The server's thread
\* can also run between two of them; the step shows it fewer unfinished
\* updates than there are, never more.)
ElementItem(m) ==
    /\ pc = PcItem[m]
    /\ LET a == annotate_elements_with_country(Head(items), geoip_db)
           w == WritePoints(Metric(m), a[2], produced[m])
           e == IF a[1] # NoExc THEN a[1] ELSE w[1] IN
       /\ SetMetric(m, w[2])
       /\ produced' = [produced EXCEPT ![m] = w[3]]
       /\ IF e # NoExc
          THEN Raise(e) /\ UNCHANGED <<items, committed>>
          ELSE /\ items' = Tail(items)
               /\ Running(IF Tail(items) = <<>> THEN PcAfter[m] ELSE PcItem[m])
               /\ committed' = IF Tail(items) = <<>>
                     THEN [committed EXCEPT ![m] = w[2]]
                     ELSE committed
    /\ UNCHANGED <<provVars, unitVars, rules, chains, counter_bytes, counter_packets, scraped>>

\* Line 118: time.sleep(UPDATE_PERIOD) returns.
Sleep ==
    /\ pc = "L118"
    /\ Running("L101")
    /\ UNCHANGED <<provVars, loopVars, unitVars>>

\* A metric is partially updated: its series are neither those it had when
\* its previous update ended nor those of an update that has ended since.
Partial(m) == Metric(m) # committed[m]

\* The http server started at line 36 answers a scrape from its own thread.
Scrape ==
    /\ pc \notin {"main", "raised"}
    /\ scraped' = IF \E m \in DOMAIN committed : Partial(m) THEN "partial" ELSE "whole"
    /\ UNCHANGED <<pc, exc, tb, provVars, unitVars, rules, chains, counter_bytes, counter_packets,
                   map_elements, meter_elements, set_elements, items, produced, committed>>

\* ------------------------------------------------------------ nft's answers

Meta(version) == [metainfo |-> [json_schema_version |-> version]]
Table == [family |-> "ip", name |-> "filter", handle |-> 1]
Chain == [family |-> "ip", table |-> "filter", name |-> "input", handle |-> 1]
Rule == [family |-> "ip", table |-> "filter", chain |-> "input", handle |-> 2]
Counter(packets) ==
    [family |-> "ip", table |-> "filter", name |-> "ssh", handle |-> 3,
     packets |-> packets, bytes |-> 60 * packets]
Object(name, type, elem) ==
    [family |-> "ip", table |-> "filter", name |-> name, type |-> type,
     handle |-> 4, elem |-> elem]
StrElem(val) == [py |-> "str", val |-> val]
DictElem(val) == [py |-> "dict", elem |-> [val |-> val, timeout |-> 60]]
IntElem(val) == [py |-> "int", val |-> val]

Tagged(type_name, payload) == [k \in {type_name} |-> payload]

SeqsUpTo(S, n) == UNION {[1..k -> S] : k \in 0..n}

\* The completed process of subprocess.run: nft exits non-zero, prints what
\* is no JSON, or prints a listing.
Failed == [returncode |-> 1, stdout |-> [json |-> FALSE]]
Garbage == [returncode |-> 0, stdout |-> [json |-> FALSE]]
Listing(version, entries) ==
    [returncode |-> 0,
     stdout |-> [json |-> TRUE, nftables |-> <<Meta(version)>> \o entries]]
Processes(Entries) ==
    {Failed, Garbage}
    \cup {Listing(v, es) : v \in {1, 2}, es \in SeqsUpTo(Entries, MaxEntries)}

\* The objects of a ruleset that changes between passes.
Blocked == Object("blocked", "ipv4_addr", <<StrElem("192.0.2.1"), DictElem("10.0.0.1")>>)
Ports == Object("ports", "inet_service", <<IntElem(22)>>)
ElementEntries(type_name) ==
    {Tagged(type_name, Blocked), Tagged(type_name, Ports)}

\* What nft can answer while the maps, meters and sets of the ruleset change
\* between and during passes.
Ruleset ==
    [ruleset |-> {Failed, Garbage}
         \cup {Listing(v, <<Tagged("table", Table), Tagged("chain", Chain),
                            Tagged("rule", Rule)>>) : v \in {1, 2}},
     counters |-> {Failed, Garbage}
         \cup {Listing(v, <<Tagged("table", Table), Tagged("counter", Counter(1))>>) :
                  v \in {1, 2}},
     maps |-> Processes(ElementEntries("map")),
     meters |-> Processes(ElementEntries("meter")),
     sets |-> Processes(ElementEntries("set"))]

\* ------------------------------------------------------------ specification

\* The history of a provisioning run: the archive file the archive stage
\* found, the downloads made, whether each download delivered an archive of
\* the fetched checksum, whether the archive extracted had that checksum,
\* and whether the service answered every request sent to it correctly.
NoHistory == [cached |-> Unset, downloads |-> 0, delivered |-> TRUE, verified |-> FALSE,
              answered |-> TRUE]

\* The process starts: the metrics are registered and hold no series; the
\* cache directory is as an earlier run, or nobody, left it.
Init ==
    /\ run = 1
    /\ pc = "main"
    /\ exc = NoExc
    /\ tb = None
    /\ enabled \in BOOLEAN
    /\ dirExists \in BOOLEAN
    /\ archive \in IF dirExists THEN {NoFile} \cup FileContents ELSE {NoFile}
    /\ extracted \in IF dirExists THEN SUBSET Contents ELSE {{}}
    /\ checksum = Unset
    /\ calls = 0
    /\ last = NoExc
    /\ database_path = Unset
    /\ geoip_db = None
    /\ prov = NoHistory
    /\ rules = 0
    /\ chains = 0
    /\ counter_bytes = NoSeries
    /\ counter_packets = NoSeries
    /\ map_elements = NoSeries
    /\ meter_elements = NoSeries
    /\ set_elements = NoSeries
    /\ items = <<>>
    /\ produced = [m \in ElementMetrics |-> NoSeries]
    /\ committed = [m \in ElementMetrics \cup {"counter_bytes", "counter_packets"} |-> NoSeries]
    /\ scraped = None
    /\ args = <<>>
    /\ returned = <<>>

Provision ==
    \/ Main
    \/ ChecksumAttempt
    \/ CallArchive
    \/ ArchiveAttempt
    \/ Extract
    \/ StartCollect

Collect(Responses) ==
    \/ FetchRules(Responses)
    \/ FetchChains(Responses)
    \/ FetchCounters(Responses)
    \/ CounterItem
    \/ \E m \in ElementMetrics : Reset(m)
    \/ \E m \in ElementMetrics : FetchElements(m, Responses)
    \/ \E m \in ElementMetrics : ElementItem(m)
    \/ Sleep

\* A ruleset that stays as it is: every listing holds the same one object.
Steady ==
    [ruleset |-> {Failed, Listing(1, <<Tagged("chain", Chain), Tagged("rule", Rule)>>)},
     counters |-> {Failed, Listing(1, <<Tagged("counter", Counter(1))>>)},
     maps |-> {Failed, Listing(1, <<Tagged("map", Blocked)>>)},
     meters |-> {Failed, Listing(1, <<Tagged("meter", Blocked)>>)},
     sets |-> {Failed, Listing(1, <<Tagged("set", Blocked)>>)}]

\* The whole program with the http server's thread, the ruleset steady.
Next == Provision \/ Collect(Steady) \/ Scrape

Spec == Init /\ [][Next]_vars

\* The program is started again (by hand, by a service manager) after it
\* ended or while it collects: the cache directory is what the earlier run
\* left, everything in memory is new.
Restart ==
    /\ pc \in {"raised"} \cup LoopPcs
    /\ run < MaxRuns
    /\ run' = run + 1
    /\ pc' = "main"
    /\ exc' = NoExc
    /\ tb' = None
    /\ checksum' = Unset
    /\ calls' = 0
    /\ last' = NoExc
    /\ database_path' = Unset
    /\ geoip_db' = None
    /\ prov' = NoHistory
    /\ rules' = 0
    /\ chains' = 0
    /\ counter_bytes' = NoSeries
    /\ counter_packets' = NoSeries
    /\ map_elements' = NoSeries
    /\ meter_elements' = NoSeries
    /\ set_elements' = NoSeries
    /\ items' = <<>>
    /\ produced' = [m \in ElementMetrics |-> NoSeries]
    /\ committed' = [m \in DOMAIN committed |-> NoSeries]
    /\ scraped' = None
    /\ UNCHANGED <<enabled, dirExists, archive, extracted, unitVars>>

\* Provisioning alone, up to the call of collect_metrics, in run after run.
NextProvision == Provision \/ Restart

SpecProvision == Init /\ [][NextProvision]_vars

\* collect_metrics is called, without a database or with the database of a
\* run that found a valid archive in its cache.
InitLoop ==
    /\ run = 1
    /\ pc = "L101"
    /\ exc = NoExc
    /\ tb = None
    /\ geoip_db \in {None, "database"}
    /\ enabled = (geoip_db # None)
    /\ dirExists = enabled
    /\ archive = IF enabled THEN 1 ELSE NoFile
    /\ extracted = IF enabled THEN {1} ELSE {}
    /\ checksum = IF enabled THEN calculate_file_checksum(1) ELSE Unset
    /\ calls = 0
    /\ last = NoExc
    /\ database_path = IF enabled THEN 1 ELSE Unset
    /\ prov = IF enabled THEN [cached |-> 1, downloads |-> 0, delivered |-> TRUE,
                               verified |-> TRUE, answered |-> TRUE]
                         ELSE NoHistory
    /\ rules = 0
    /\ chains = 0
    /\ counter_bytes = NoSeries
    /\ counter_packets = NoSeries
    /\ map_elements = NoSeries
    /\ meter_elements = NoSeries
    /\ set_elements = NoSeries
    /\ items = <<>>
    /\ produced = [m \in ElementMetrics |-> NoSeries]
    /\ committed = [m \in ElementMetrics \cup {"counter_bytes", "counter_packets"} |-> NoSeries]
    /\ scraped = None
    /\ args = <<>>
    /\ returned = <<>>

\* The collection loop, the ruleset changing between and during passes.
NextLoop == Collect(Ruleset)

SpecLoop == InitLoop /\ [][NextLoop]_vars

\* ------------------------------------------------------------------ claims

ProvisionStages == {"download_maxmind_database_checksum",
                    "download_maxmind_database_archive",
                    "extract_maxmind_database_archive"}
FetchPcs == {"L101", "L102", "L103", "L107", "L111", "L115"}
InvocationErrors == {"CalledProcessError", "JSONDecodeError"}

\* The metrics the category fetched at a line of the loop updates.
MetricsOf(line) ==
    CASE line = "L103" -> {"counter_bytes", "counter_packets"}
      [] line = "L107" -> {"map_elements"}
      [] line = "L111" -> {"meter_elements"}
      [] line = "L115" -> {"set_elements"}
      [] OTHER -> {}

\* C1: a failure of one category's fetch or update never aborts the loop: no
\* exception raised at a statement of the loop ends the process, so the
\* categories after it, the sleep and the next pass still follow.
C1_FailureKeepsLoopRunning == tb \in LoopPcs => pc # "raised"

\* C2: when the fetch of a category fails with an invocation error, every
\* series of that category's metrics has the value it had before the pass
\* began (the value its previous update left).
C2_FailedFetchLeavesSeries ==
    (pc = "raised" /\ tb \in FetchPcs /\ exc \in InvocationErrors)
        => \A m \in MetricsOf(tb) : Metric(m) = committed[m]

StageExceptions ==
    IF pc = "download_maxmind_database_checksum" THEN ChecksumExceptions
    ELSE ArchiveExceptions

\* C3: a stage wrapped by retry(n=2) is invoked at most 3 times per call; it
\* is invoked again only after an invocation raised an exception of its
\* retryable set, never after one returned (the stage then returns, with the
\* checksum for the checksum stage), and the exception of the 3rd invocation
\* propagates.
C3_RetryAtMostThrice ==
    /\ calls <= RetryN + 1
    /\ (pc \in ProvisionStages /\ calls > 0)
          => /\ last # NoExc
             /\ Catches(StageExceptions, last)
             /\ calls <= RetryN
    /\ (calls > 0 /\ last = NoExc)
          => /\ pc \in {"checksum_returned", "archive_returned"}
             /\ pc = "checksum_returned" => checksum # Unset
    /\ (calls = RetryN + 1 /\ last # NoExc)
          => /\ pc = "raised"
             /\ exc = last

C3_ThirdFailurePropagates ==
    /\ pc = "raised"
    /\ tb = "download_maxmind_database_checksum"
    /\ calls = RetryN + 1
    /\ exc = "URLError"

\* The archive stage has been entered in this run.
ArchiveEntered == prov.cached # Unset
\* It has made an invocation, or is over.
ArchiveInvoked ==
    ArchiveEntered /\ ~(pc = "download_maxmind_database_archive" /\ calls = 0)
CacheHit ==
    /\ ArchiveEntered
    /\ prov.cached # NoFile
    /\ calculate_file_checksum(prov.cached) = checksum
CacheCorrupted ==
    /\ ArchiveEntered
    /\ prov.cached # NoFile
    /\ calculate_file_checksum(prov.cached) # checksum

\* C4: called with a cached archive whose checksum equals the fetched one,
\* the archive stage downloads nothing, leaves the file as it is and returns
\* at its first invocation; so it does in every run that finds that file.
C4_CacheHitNoDownload ==
    CacheHit =>
        /\ prov.downloads = 0
        /\ archive = prov.cached
        /\ ~(pc = "raised" /\ tb = "download_maxmind_database_archive")
        /\ ArchiveInvoked => pc # "download_maxmind_database_archive"

C4_SecondRunHitsCache ==
    /\ run = 2
    /\ CacheHit
    /\ pc = "archive_returned"
    /\ calls = 1

\* C5: with a corrupted cached archive and a remote service that delivers a
\* correct archive, the archive stage makes exactly one download and returns
\* with an archive whose checksum equals the fetched one, without raising.
C5_CorruptedCacheOneDownload ==
    (CacheCorrupted /\ prov.delivered /\ ArchiveInvoked) =>
        /\ prov.downloads = 1
        /\ calculate_file_checksum(archive) = checksum
        /\ pc # "download_maxmind_database_archive"
        /\ ~(pc = "raised" /\ tb = "download_maxmind_database_archive")

C5_CorruptedCacheReplaced ==
    /\ CacheCorrupted
    /\ prov.delivered
    /\ pc = "archive_returned"
    /\ archive # prov.cached

\* C6: whenever prepare_maxmind_database has returned a path, extraction
\* started on an archive whose checksum equalled the fetched one; whenever a
\* stage's failure is not recovered, no path is returned and collect_metrics
\* is never called: no database is opened and no metric is written.
C6_AllOrNothing ==
    /\ (database_path # Unset \/ geoip_db # None) => prov.verified
    /\ (enabled /\ pc \in LoopPcs) => (geoip_db # None /\ database_path # Unset)
    /\ (pc = "raised" /\ tb \in ProvisionStages) =>
          /\ database_path = Unset
          /\ geoip_db = None
          /\ rules = 0 /\ chains = 0
          /\ \A m \in DOMAIN committed : Metric(m) = NoSeries

C6_CollectingAfterDownload ==
    /\ pc \in LoopPcs
    /\ geoip_db # None
    /\ prov.downloads > 0
    /\ rules > 0

\* C7: as long as no archive with the fetched checksum has been obtained, the
\* archive stage does not return; it is invoked at most 3 times and downloads
\* at most 3 times, and its 3rd failure (the checksum mismatch, when the 3rd
\* download delivered an archive) propagates and ends provisioning.
C7_MismatchTerminates ==
    (ArchiveEntered /\ (archive = NoFile \/ calculate_file_checksum(archive) # checksum)) =>
        /\ pc \in {"download_maxmind_database_archive", "raised"}
        /\ calls <= RetryN + 1
        /\ prov.downloads <= RetryN + 1
        /\ calls = RetryN + 1 => (pc = "raised" /\ exc = last)
        /\ pc = "raised" => (database_path = Unset /\ geoip_db = None)

C7_ThreeDownloadsThenRaised ==
    /\ pc = "raised"
    /\ exc = "RuntimeError"
    /\ tb = "download_maxmind_database_archive"
    /\ prov.downloads = 3
    /\ calls = 3

\* C8: after every completed pass, in each of map_elements, meter_elements
\* and set_elements every series not produced by the pass has value 0 and
\* every series produced by it has the value the pass wrote.
C8_NoStaleValues ==
    pc = "L118" =>
        \A m \in ElementMetrics :
            /\ DOMAIN produced[m] \subseteq DOMAIN Metric(m)
            /\ \A k \in DOMAIN Metric(m) :
                  Metric(m)[k] = IF k \in DOMAIN produced[m] THEN produced[m][k] ELSE 0

C8_StaleSeriesZeroed ==
    /\ pc = "L118"
    /\ \E m \in ElementMetrics :
          /\ \E k \in DOMAIN Metric(m) \ DOMAIN produced[m] : Metric(m)[k] = 0
          /\ \E k \in DOMAIN produced[m] : Metric(m)[k] > 0

\* C9 as the specification states it: after a pass the published series of
\* map_elements, meter_elements and set_elements are exactly the label
\* combinations the pass produced.
C9_OnlyProducedSeries ==
    pc = "L118" => \A m \in ElementMetrics : DOMAIN Metric(m) = DOMAIN produced[m]

\* C9, amended: no step removes a series of map_elements, meter_elements or
\* set_elements; reset() keeps every published label combination and sets it
\* to 0, so a set gone from the ruleset stays published, with value 0.
C9_SeriesKeptAtZero ==
    [][\A m \in ElementMetrics :
          /\ DOMAIN Metric(m) \subseteq DOMAIN Metric(m)'
          /\ (pc = PcReset[m] /\ pc' = PcFetch[m]) =>
                /\ DOMAIN Metric(m)' = DOMAIN Metric(m)
                /\ \A k \in DOMAIN Metric(m) : Metric(m)'[k] = 0]_vars

C9_GoneSetStillPublished ==
    /\ pc = "L118"
    /\ produced.set_elements = NoSeries
    /\ DOMAIN set_elements # {}
    /\ \A k \in DOMAIN set_elements : set_elements[k] = 0

\* C10: the http server never observes a partially updated category: no
\* scrape sees a metric whose series are neither those its previous update
\* left nor those of a finished update.
C10_NoPartialScrape == scraped # "partial"

\* ------------------------------------------- a function called on its own

\* The program before main(), while one of its functions is called on its own.
BeforeMain ==
    /\ run = 1
    /\ pc = "main"
    /\ exc = NoExc
    /\ tb = None
    /\ enabled = FALSE
    /\ dirExists = FALSE
    /\ archive = NoFile
    /\ extracted = {}
    /\ checksum = Unset
    /\ calls = 0
    /\ last = NoExc
    /\ database_path = Unset
    /\ geoip_db = None
    /\ prov = NoHistory
    /\ rules = 0
    /\ chains = 0
    /\ counter_bytes = NoSeries
    /\ counter_packets = NoSeries
    /\ map_elements = NoSeries
    /\ meter_elements = NoSeries
    /\ set_elements = NoSeries
    /\ items = <<>>
    /\ produced = [m \in ElementMetrics |-> NoSeries]
    /\ committed = [m \in ElementMetrics \cup {"counter_bytes", "counter_packets"} |-> NoSeries]
    /\ scraped = None
    /\ returned = <<>>

Called == returned # <<>>

\* The call returns or raises: nothing else of the program moves.
Return(value) ==
    /\ ~Called
    /\ returned' = value
    /\ UNCHANGED <<run, pc, exc, tb, provVars, loopVars, args>>

\* ------------------------------ annotate_elements_with_country on its own

\* Longest list of elements of a map, meter or set.
MaxElems == 2

\* The addresses database_get knows, and a value that is no address.
Addresses == {"192.0.2.1", "198.51.100.1", "203.0.113.1", "10.0.0.1"}
NoAddress == "10.0.0.0/8"

\* The elements nft lists: a string, a dict wrapping the value under
\* elem.val, a dict of another shape (a prefix of an interval set), a number.
PrefixElem == [py |-> "dict", prefix |-> [addr |-> "10.0.0.0", len |-> 8]]
Elements ==
    {StrElem(a) : a \in Addresses \cup {NoAddress}}
    \cup {DictElem(a) : a \in Addresses \cup {NoAddress}}
    \cup {PrefixElem, IntElem(22)}

Types == {"ipv4_addr", "ipv6_addr", "inet_service"}

\* A set without elements is listed without the elem key.
Empty(type) == [family |-> "ip", table |-> "filter", name |-> "empty", type |-> type,
                handle |-> 5]

AnnotateItems ==
    {Object("blocked", t, es) : t \in Types, es \in SeqsUpTo(Elements, MaxElems)}
    \cup {Empty(t) : t \in Types}

InitAnnotate ==
    /\ BeforeMain
    /\ args \in [item : AnnotateItems, geoip_db : {None, "database"}]

Annotate == Return(annotate_elements_with_country(args.item, args.geoip_db))

SpecAnnotate == InitAnnotate /\ [][Annotate]_vars

\* What the call under SpecAnnotate is about.
Enriching == args.geoip_db # None /\ Get(args.item, "type", None) \in {"ipv4_addr", "ipv6_addr"}
ElementsOf(item) == IF "elem" \in DOMAIN item THEN item.elem ELSE <<>>

\* C11: without a lookup capability, or for an object whose type is neither
\* ipv4_addr nor ipv6_addr, annotate_elements_with_country emits exactly one
\* point, its country is the empty string, its value is the number of
\* elements of the object, and the database is never asked.
C11_NotEnrichedOnePoint ==
    (Called /\ ~Enriching) =>
        /\ returned[1] = NoExc
        /\ Len(returned[2]) = 1
        /\ returned[2][1][1].country = ""
        /\ returned[2][1][2] = Len(ElementsOf(args.item))
        /\ returned[3] = <<>>

\* A database is given, the object holds two ports: one point of value 2.
C11_PortsCountedWithDatabase ==
    /\ Called
    /\ args.geoip_db # None
    /\ args.item.type = "inet_service"
    /\ Len(ElementsOf(args.item)) = 2
    /\ returned[2] = << <<WithCountry(args.item, ""), 2>> >>

\* An element of a shape lines 147-150 take: a string, or a dict that wraps
\* its value under elem.val.
WellShaped(element) ==
    \/ element.py = "str"
    \/ /\ element.py = "dict"
       /\ "elem" \in DOMAIN element
       /\ "val" \in DOMAIN element.elem
Carried(element) == IF element.py = "str" THEN element.val ELSE element.elem.val
\* The country code an element counts under: the one the database holds for
\* the value it carries, else the empty code.
Resolved(element) ==
    LET got == database_get(Carried(element)) IN
    IF got[1] = NoExc /\ "country" \in DOMAIN got[2] THEN got[2].country.iso_code ELSE ""

RECURSIVE SumValues(_)
SumValues(points) ==
    IF points = <<>> THEN 0 ELSE Head(points)[2] + SumValues(Tail(points))

\* C12: with a database, for an object of type ipv4_addr or ipv6_addr,
\* annotate_elements_with_country emits exactly one point per distinct
\* country code its elements resolve to; the value of the point is the
\* number of elements resolving to that code, a string and a dict carrying
\* the same address counting for the same code and an unresolved element
\* counting under the empty code; the values sum to the number of elements.
C12_OnePointPerCountry ==
    LET es == ElementsOf(args.item)
        codes == {Resolved(es[i]) : i \in 1..Len(es)}
        points == returned[2]
    IN (Called /\ Enriching /\ \A i \in 1..Len(es) : WellShaped(es[i])) =>
        /\ Len(points) = Cardinality(codes)
        /\ \A c \in codes : \E i \in 1..Len(points) :
               /\ points[i][1] = WithCountry(args.item, c)
               /\ points[i][2] = Cardinality({j \in 1..Len(es) : Resolved(es[j]) = c})
        /\ SumValues(points) = Len(es)

\* C13: resolving the country of an element never raises: when the database
\* fails on the value or does not hold it, the element counts under the
\* empty country code and the annotation goes on to the next element.
C13_LookupNeverRaises ==
    LET es == ElementsOf(args.item) IN
    (Called /\ Enriching /\ \A i \in 1..Len(es) : WellShaped(es[i])) =>
        /\ returned[1] = NoExc
        /\ Len(returned[3]) = Len(es)
        /\ (\E i \in 1..Len(es) : Resolved(es[i]) = "") =>
               \E j \in 1..Len(returned[2]) : returned[2][j][1].country = ""

\* The shapes the data model gives an element: a bare scalar (a string or a
\* number) or a dict wrapping the value under elem.val.
BareScalar(element) == element.py \in {"str", "int"}
Accepted(element) == BareScalar(element) \/ WellShaped(element)

\* C14: an element that is neither a bare scalar nor a dict wrapping the
\* value under elem.val makes annotate_elements_with_country raise the one
\* error it has for unexpected shapes (TypeError, line 152) before any point
\* is emitted; every bare scalar and every well-formed dict is accepted.
\* Stated for elements whose value the database can be asked for.
C14_OnlyUnexpectedShapesRaise ==
    LET es == ElementsOf(args.item) IN
    (/\ Called
     /\ Enriching
     /\ \A i \in 1..Len(es) : WellShaped(es[i]) => Carried(es[i]) \in Addresses) =>
        IF \A i \in 1..Len(es) : Accepted(es[i])
        THEN returned[1] = NoExc
        ELSE returned[1] = "TypeError" /\ returned[2] = <<>>

\* ------------------------------------------------ fetch_nftables on its own

\* Longest list of entries after the metainfo entry of a listing.
MaxListed == 3

Accept == [family |-> "ip", table |-> "filter", chain |-> "input", handle |-> 6]
FetchEntries ==
    {Tagged("table", Table), Tagged("chain", Chain), Tagged("rule", Rule),
     Tagged("rule", Accept)}

InitFetch ==
    /\ BeforeMain
    /\ args \in [process : {Failed, Garbage}
                      \cup {Listing(v, es) : v \in {1, 2},
                                             es \in SeqsUpTo(FetchEntries, MaxListed)},
                  type_name : {"rule", "chain"}]

Fetch == Return(fetch_nftables(args.process, args.type_name))

SpecFetch == InitFetch /\ [][Fetch]_vars

\* C15: from an envelope of schema version 1 fetch_nftables returns exactly
\* the payloads of the entries after the first that are tagged type_name, in
\* the order of the envelope; from an envelope of another version it raises
\* and returns no data.
C15_TaggedPayloadsInOrder ==
    (Called /\ args.process.returncode = 0 /\ args.process.stdout.json) =>
        LET data == args.process.stdout.nftables
            tagged == {i \in 2..Len(data) : args.type_name \in DOMAIN data[i]}
        IN IF data[1].metainfo.json_schema_version = 1
           THEN /\ returned[1] = NoExc
                /\ Len(returned[2]) = Cardinality(tagged)
                /\ \A i \in tagged :
                       returned[2][Cardinality({j \in tagged : j <= i})]
                           = data[i][args.type_name]
           ELSE /\ returned[1] = "RuntimeError"
                /\ returned[2] = <<>>

\* Two rules around a chain: the rules are returned, in their order.
C15_RulesAroundChain ==
    /\ Called
    /\ args.type_name = "rule"
    /\ args.process = Listing(1, <<Tagged("rule", Accept), Tagged("chain", Chain),
                                   Tagged("rule", Rule)>>)
    /\ returned = <<NoExc, <<Accept, Rule>>>>

\* ------------------------------------------------ labels(data) on its own

\* The attributes an object handed to labels(data) can have, and the objects:
\* any of the attributes may be missing.
Attributes ==
    [family |-> "ip", table |-> "filter", name |-> "blocked", type |-> "ipv4_addr",
     country |-> "FR", handle |-> 4]
LabelData == {[k \in D |-> Attributes[k]] : D \in SUBSET DOMAIN Attributes}

InitLabels ==
    /\ BeforeMain
    /\ args \in [data : LabelData, labelnames : {CounterLabels, ElementLabels}]

Labels == Return(labels(args.data, args.labelnames))

SpecLabels == InitLabels /\ [][Labels]_vars

\* C16: the label set a write uses is the attributes of the object
\* restricted to the label names the metric declares: attributes outside
\* them are dropped, and a declared label the object lacks is published as
\* the empty string, the write not failing.
C16_MissingLabelEmpty ==
    Called =>
        /\ returned[1] = NoExc
        /\ returned[2] = [l \in args.labelnames |->
                            IF l \in DOMAIN args.data THEN args.data[l] ELSE ""]

\* ------------------------------------------------- provisioning, continued

\* C17: when the cache directory does not exist as provisioning starts and
\* the service answers every request correctly, the directory is created
\* before a file is written into it and provisioning does not fail.
C17_MissingDirectoryCreated ==
    (~dirExists /\ prov.answered) => pc # "raised"

\* The stage whose wrapper made the latest invocations.
Stage == IF pc = "raised" THEN tb ELSE pc

\* C20: an exception outside the retryable set of its stage propagates from
\* the invocation that raised it, no further invocation being made: the
\* checksum stage goes on only after a URLError (HTTPError is one), the
\* archive stage only after a URLError or a RuntimeError.
C20_NotRetryablePropagates ==
    /\ (/\ calls > 0
        /\ Stage = "download_maxmind_database_checksum"
        /\ last \notin {NoExc, "URLError", "HTTPError"})
          => (pc = "raised" /\ exc = last)
    /\ (/\ calls > 0
        /\ Stage = "download_maxmind_database_archive"
        /\ last \notin {NoExc, "URLError", "HTTPError", "RuntimeError"})
          => (pc = "raised" /\ exc = last)

\* The archive file cannot be opened for writing: the archive stage ends
\* with its first invocation.
C20_FilesystemErrorOneAttempt ==
    /\ pc = "raised"
    /\ tb = "download_maxmind_database_archive"
    /\ exc = "FileNotFoundError"
    /\ calls = 1

\* ------------------------------------------------ the loop, continued

\* The lines of collect_metrics in program order, and the category each
\* works on.
Position ==
    [L101 |-> 1, L102 |-> 2, L103 |-> 3, L104 |-> 4, L106 |-> 5, L107 |-> 6, L108 |-> 7,
     L110 |-> 8, L111 |-> 9, L112 |-> 10, L114 |-> 11, L115 |-> 12, L116 |-> 13,
     L118 |-> 14]
Category ==
    [L101 |-> "rules", L102 |-> "chains", L103 |-> "counters", L104 |-> "counters",
     L106 |-> "maps", L107 |-> "maps", L108 |-> "maps",
     L110 |-> "meters", L111 |-> "meters", L112 |-> "meters",
     L114 |-> "sets", L115 |-> "sets", L116 |-> "sets", L118 |-> "idle"]
CategoryOrder == <<"rules", "chains", "counters", "maps", "meters", "sets", "idle">>
Rank(category) == CHOOSE i \in DOMAIN CategoryOrder : CategoryOrder[i] = category

\* C18: a pass works on the categories in the order rule count, chain count,
\* counters, maps, meters, sets: it never goes back to a line it has left,
\* never skips a category, fetches each category once, and reaches the sleep
\* only from the sets; the sleep is left only by returning, to the first
\* line of the next pass, with no metric touched.
C18_FixedOrder ==
    [][(pc \in LoopPcs /\ pc' \in LoopPcs) =>
          IF pc = "L118"
          THEN pc' = "L101" /\ UNCHANGED loopVars
          ELSE /\ Position[pc'] >= Position[pc]
               /\ Rank(Category[pc']) <= Rank(Category[pc]) + 1
               /\ pc \in FetchPcs => pc' # pc
               /\ pc' = "L118" => Category[pc] = "sets"]_vars

\* A pass has reached the sleep with every category written.
C18_PassCompleted ==
    /\ pc = "L118"
    /\ rules = 1
    /\ chains = 1
    /\ counter_packets # NoSeries
    /\ \A m \in ElementMetrics : produced[m] # NoSeries

\* What a step of provisioning changes: the cache directory, the results of
\* the stages, the invocations of a wrapper.
Provisioned ==
    <<dirExists, archive, extracted, checksum, calls, last, database_path, prov>>

\* C19: with the enrichment enabled, provisioning runs once and has returned
\* the database before the first fetch: the loop is entered with the database
\* of a completed provisioning, a result of provisioning once set is never
\* set again, and no step of provisioning is taken once the loop has begun.
\* With the enrichment disabled no step of provisioning is taken at all.
C19_ProvisionedOnceBeforeLoop ==
    [][/\ pc \in LoopPcs =>
             /\ pc' \in LoopPcs \cup {"raised"}
             /\ UNCHANGED <<Provisioned, geoip_db>>
       /\ ~enabled => UNCHANGED <<Provisioned, geoip_db>>
       /\ (enabled /\ pc \notin LoopPcs /\ pc' \in LoopPcs) =>
             /\ pc' = "L101"
             /\ rules = 0
             /\ database_path' \in extracted'
             /\ geoip_db' = "database"
       /\ checksum # Unset => checksum' = checksum
       /\ database_path # Unset => database_path' = database_path]_vars

\* The archive was downloaded and the first fetches of the loop are done.
C19_FetchingAfterDownload ==
    /\ enabled
    /\ prov.downloads = 1
    /\ database_path \in extracted
    /\ pc = "L103"
    /\ rules = 1

====
